---- MODULE Spec2Model ----
(***************************************************************************)
(* Job claiming and status tracking of the polarsen pipeline workers:      *)
(* the upload worker (cli/listener.py process_chat_worker over             *)
(* cli/ingest.py process_uploads), the segmentation worker                 *)
(* (process_chat_groups_worker) and the embedding worker                   *)
(* (process_embeddings_worker), over the status statements of db/chat.py   *)
(* and db/ai.py.                                                           *)
(*                                                                         *)
(* One behaviour runs one stage: Init chooses the stage and the worker     *)
(* parameters, and the workers of that stage interleave statement by       *)
(* statement against one store.  The store is PostgreSQL at READ COMMITTED *)
(* driven through asyncpg: a statement outside conn.transaction() commits  *)
(* on its own, a transaction's writes are invisible to others until its    *)
(* commit, and a row lock is held until the transaction ends.              *)
(***************************************************************************)
EXTENDS Integers, Sequences, FiniteSets, TLC

VARIABLES
    stage,           \* "seg" | "emb" | "upl": the stage this behaviour runs
    run_forever,     \* worker parameter run_forever
    limit,           \* worker parameter limit / chunk_size
    only_with_keys,  \* worker parameter only_with_keys (segmentation)
    api_key,         \* chat -> whether its creator has a key for the source
    user_id,         \* group -> c.created_by of its chat
    internal_code,   \* upload -> the group id of the export in its file, which
                     \* is the internal_code of the chat it is saved as
    meta,            \* row -> the jsonb column meta (chats or message groups)
    embeddings,      \* group ids with a row in ai.mistral_group_embeddings
    processed_at,    \* upload ids whose processed_at is set (committed)
    lock,            \* row -> the worker whose open transaction locks it, or 0
    pc,              \* worker -> where its coroutine stands
    snap,            \* worker -> rows its claim statement's snapshot matched
    batch,           \* worker -> _chats / _groups / pending_uploads
    idx,             \* worker -> position of the for loop in batch
    processing_ids,  \* worker -> _processing_ids (a set, or None)
    tx_marked,       \* worker -> uploads marked processed in its open transaction
    results,         \* worker -> what each processor call of this pass did:
                     \* "ok" / "raised", "skipped" (uploads), or with "_norec"
                     \* when the store then failed to take the status statement
    everDone,        \* rows that have once been recorded done / processed
    call,            \* the last status statement run directly on the store
    age,             \* row -> minutes since its started timestamp was written
    retry,           \* the locals of one call of a retry_async wrapper
    embedding_task   \* a process_embeddings_worker task of the TaskGroup the
                     \* segmentation workers run in: "running" | "stalled" | "raised"

vars == <<stage, run_forever, limit, only_with_keys, api_key, user_id, internal_code, meta,
          embeddings, processed_at, lock, pc, snap, batch, idx, processing_ids,
          tx_marked, results, everDone, call, age, retry, embedding_task>>

(***************************************************************************)
(* Bounds.                                                                 *)
(***************************************************************************)
NumItems == 2          \* rows in the queue table
NumWorkers == 2        \* workers of the stage under Spec
NumRaceWorkers == 3    \* workers under SpecRace

Items == 1..NumItems
\* the limit / chunk_size values: from one row to the whole queue
Limits == 1..NumItems
\* chat creators: at most one per group
Users == 1..NumItems
Workers == DOMAIN pc

\* _processing_ids: set[int] | None = None
None == {0}

(***************************************************************************)
(* jsonb values.  A column value is SQL NULL or an object, a finite map    *)
(* from keys to text.                                                      *)
(***************************************************************************)
EmptyObj == [k \in {} |-> ""]
Null == [null |-> TRUE, obj |-> EmptyObj]
Json(o) == [null |-> FALSE, obj |-> o]

\* COALESCE(meta, '{}')
Coalesce(m) == IF m.null THEN EmptyObj ELSE m.obj

\* jsonb || jsonb: the right operand's keys win
Concat(a, b) ==
    [k \in (DOMAIN a) \cup (DOMAIN b) |-> IF k \in DOMAIN b THEN b[k] ELSE a[k]]

\* jsonb - text: the object without that key
Minus(a, k) == [x \in (DOMAIN a) \ {k} |-> a[x]]

\* meta - 'key' on the column: NULL stays NULL
ColumnMinus(m, k) == IF m.null THEN Null ELSE Json(Minus(m.obj, k))

\* meta ->> 'key': the text, or SQL NULL (here "NULL") when absent
GetText(m, k) == IF m.null \/ k \notin DOMAIN m.obj THEN "NULL" ELSE m.obj[k]

\* UPDATE ... SET meta = f(meta) WHERE id = ANY(ids)
UpdateWhere(m, ids, new) == [i \in DOMAIN m |-> IF i \in ids THEN new[i] ELSE m[i]]

\* what a status statement does: it raises or not, and the table afterwards
Ok(m) == [raised |-> FALSE, meta |-> m]
Raised(m) == [raised |-> TRUE, meta |-> m]

(***************************************************************************)
(* db/chat.py, class DbChat: the status statements on general.chats.       *)
(***************************************************************************)
\* Mutation: the statement sets the status and no started timestamp.
DbChat_set_is_processing_unstamped(m, chat_ids) ==
    LET built == ("status" :> "processing")
        f(old) == Json(Concat(Coalesce(old), built))
    IN  Ok(UpdateWhere(m, chat_ids, [i \in DOMAIN m |-> f(m[i])]))

DbChat_set_is_processing(m, chat_ids) ==
    LET built == ("processing_started_at" :> "now") @@ ("status" :> "processing")
        f(old) == Json(Concat(Coalesce(old), built))
    IN  Ok(UpdateWhere(m, chat_ids, [i \in DOMAIN m |-> f(m[i])]))

\* The statement hands $2 to jsonb_build_object, a VARIADIC "any" function,
\* without a cast.  asyncpg prepares every statement that has arguments and
\* sends no parameter types, so the server has to infer the type of $2 and
\* cannot (IndeterminateDatatypeError, 42P18): the statement is rejected
\* before it runs, whatever the ids.  db/ai.py:114 carries the cast
\* ($2::text) this statement lacks.
DbChat_set_processing_error(m, chat_ids) == Raised(m)

\* "-" binds tighter than "||": the two keys are taken from the object just
\* built, not from the stored one.
DbChat_set_processing_done(m, chat_ids) ==
    LET built == ("processing_done_at" :> "now") @@ ("status" :> "done")
        f(old) == Json(Concat(Coalesce(old),
                         Minus(Minus(built, "processing_error"), "error_message")))
    IN  Ok(UpdateWhere(m, chat_ids, [i \in DOMAIN m |-> f(m[i])]))

\* db/chat.py 68-72: INSERT ... ON CONFLICT (internal_code) DO UPDATE of the
\* columns of DbChat.data (internal_code, name, created_by).  meta is not
\* among them: a new chat gets the column's default, which has no status,
\* and an existing chat keeps the meta it has.
DbChat_bulk_save(m, code) == m

\* "where id = any($1)wo": the trailing word is a syntax error
\* (PostgresSyntaxError), the statement never runs.
DbChat_reset_processing(m, chat_ids) == Raised(m)

(***************************************************************************)
(* db/ai.py, class MessageGroup: the status statements on                  *)
(* ai.message_groups.                                                      *)
(***************************************************************************)
MessageGroup_set_is_processing(m, group_ids) ==
    LET built == ("embeddings_started_at" :> "now") @@ ("embeddings_status" :> "processing")
        f(old) == Json(Concat(Coalesce(old), built))
    IN  Ok(UpdateWhere(m, group_ids, [i \in DOMAIN m |-> f(m[i])]))

\* Mutation: $2 without its cast, as in db/chat.py: the statement is rejected.
MessageGroup_set_processing_error_uncast(m, group_ids) == Raised(m)

MessageGroup_set_processing_error(m, group_ids) ==
    LET built == ("embeddings_error_at" :> "now") @@ ("embeddings_status" :> "error")
                 @@ ("embeddings_error_message" :> "message")
        f(old) == Json(Concat(Coalesce(old), built))
    IN  Ok(UpdateWhere(m, group_ids, [i \in DOMAIN m |-> f(m[i])]))

MessageGroup_set_processing_done(m, group_ids) ==
    LET built == ("embeddings_done_at" :> "now") @@ ("embeddings_status" :> "done")
        f(old) == Json(Concat(Coalesce(old),
                         Minus(Minus(built, "embeddings_error_at"),
                               "embeddings_error_message")))
    IN  Ok(UpdateWhere(m, group_ids, [i \in DOMAIN m |-> f(m[i])]))

MessageGroup_reset_processing(m, group_ids) ==
    LET f(old) == ColumnMinus(old, "embeddings_status")
    IN  Ok(UpdateWhere(m, group_ids, [i \in DOMAIN m |-> f(m[i])]))

(***************************************************************************)
(* The statements of the table the stage works on, and its keys.           *)
(***************************************************************************)
set_is_processing(m, ids) ==
    IF stage = "emb" THEN MessageGroup_set_is_processing(m, ids)
                     ELSE DbChat_set_is_processing(m, ids)

set_processing_error(m, ids) ==
    IF stage = "emb" THEN MessageGroup_set_processing_error(m, ids)
                     ELSE DbChat_set_processing_error(m, ids)

set_processing_done(m, ids) ==
    IF stage = "emb" THEN MessageGroup_set_processing_done(m, ids)
                     ELSE DbChat_set_processing_done(m, ids)

reset_processing(m, ids) ==
    IF stage = "emb" THEN MessageGroup_reset_processing(m, ids)
                     ELSE DbChat_reset_processing(m, ids)

StatusKey == IF stage = "emb" THEN "embeddings_status" ELSE "status"
StartedKey == IF stage = "emb" THEN "embeddings_started_at" ELSE "processing_started_at"
DoneKey == IF stage = "emb" THEN "embeddings_done_at" ELSE "processing_done_at"
ErrorAtKey == IF stage = "emb" THEN "embeddings_error_at" ELSE "processing_error_at"
ErrorMessageKey == IF stage = "emb" THEN "embeddings_error_message" ELSE "error_message"

\* mg.meta ->> 'status' / mg.meta ->> 'embeddings_status' of a row
StatusIn(m, i) == GetText(m[i], StatusKey)
HasIn(m, i, k) == GetText(m[i], k) # "NULL"
Status(i) == StatusIn(meta, i)
Has(i, k) == HasIn(meta, i, k)

(***************************************************************************)
(* The claim statements: cli/listener.py _get_chats_not_grouped and        *)
(* _get_groups_not_embedded, cli/ingest.py PENDING_CHAT_UPLOADS_QUERY.     *)
(***************************************************************************)
\* Mutation: 'done' is missing from the NOT IN list.
ChatsWhereNotProcessing(i) == Status(i) = "NULL" \/ Status(i) \notin {"processing"}

\* WHERE (mg.meta ->> 'status' IS NULL OR mg.meta ->> 'status' NOT IN ('processing', 'done'))
ChatsWhere(i) == Status(i) = "NULL" \/ Status(i) \notin {"processing", "done"}

\* Mutation: the statement without its CASE on the creator's key.
KeyFilterDropped(i) == TRUE

\* AND CASE WHEN $3 THEN u.api_keys ->> $2 IS NOT NULL ELSE TRUE END
KeyFilter(i) == IF only_with_keys THEN api_key[i] ELSE TRUE

\* WHERE COALESCE(mg.meta ->> 'embeddings_status' <> 'processing', TRUE)
GroupsWhere(i) == IF Status(i) = "NULL" THEN TRUE ELSE Status(i) # "processing"

\* AND cge.id IS NULL
NoEmbedding(i) == i \notin embeddings

\* WHERE processed_at IS NULL
UploadsWhere(i) == i \notin processed_at

\* The rows the statement's snapshot matches.
Matches(i) ==
    CASE stage = "seg" -> ChatsWhere(i) /\ KeyFilter(i)
      [] stage = "emb" -> GroupsWhere(i) /\ NoEmbedding(i)
      [] OTHER         -> UploadsWhere(i)

\* Mutation: the row is locked as the snapshot saw it, without the check.
RecheckSkipped(i) == TRUE

\* FOR UPDATE at READ COMMITTED: a row that changed after the snapshot is
\* checked again on its latest version before it is locked.  Only the locked
\* table's row is read again; the rows joined to it (users, embeddings) stay
\* those of the snapshot.
Recheck(i) ==
    CASE stage = "seg" -> ChatsWhere(i)
      [] stage = "emb" -> GroupsWhere(i)
      [] OTHER         -> UploadsWhere(i)

\* Mutation: the statement takes rows whoever holds them (no FOR UPDATE).
NoRowLock(i) == TRUE

\* SKIP LOCKED: a row another transaction holds is passed over, not awaited.
Unlocked(i) == lock[i] = 0

\* ORDER BY mg.id (created_at for uploads, which follows the id) ... LIMIT $1
FirstN(S, n) == {i \in S : Cardinality({j \in S : j < i}) < n}

SortedSeq(S) ==
    CHOOSE s \in [1..Cardinality(S) -> S] :
        \A a, b \in 1..Cardinality(S) : a < b => s[a] < s[b]

Range(s) == {s[j] : j \in 1..Len(s)}

\* The order of the records a claim statement returns.  The statements of
\* listener.py end in ORDER BY mg.id.  PENDING_CHAT_UPLOADS_QUERY orders only
\* inside its CTE (ingest.py 15-22); the outer SELECT joins the CTE to
\* chat_uploads and chat_types without an ORDER BY (23-31), so the order of
\* its rows is whatever the join produces.
ResultOrders(S) ==
    IF stage = "upl"
    THEN {s \in [1..Cardinality(S) -> S] : \A a, b \in 1..Cardinality(S) : a # b => s[a] # s[b]}
    ELSE {SortedSeq(S)}

\* The rows a claim statement of worker w returns now.
Claimable(w) == FirstN({i \in snap[w] : Unlocked(i) /\ Recheck(i)}, limit)

\* An UPDATE waits for the row locks other transactions hold.
Writable(w, ids) == \A i \in ids : lock[i] \in {0, w}

Release(w) == [i \in Items |-> IF lock[i] = w THEN 0 ELSE lock[i]]

(***************************************************************************)
(* The worker loops.  pc: "idle" (top of while True), "fetch" (the claim   *)
(* statement runs), "mark" (rows locked, set_is_processing and the commit  *)
(* to come), "proc" (the processor calls), "commit" (upload transaction    *)
(* about to commit), "recover" (the outer except clause), "stopped" (the   *)
(* call returned), "raised" (the call ended with an exception).            *)
(***************************************************************************)
Config == <<stage, run_forever, limit, only_with_keys, api_key, user_id, internal_code>>

\* async with conn.transaction(): the claim statement takes its snapshot.
Begin(w) ==
    /\ pc[w] = "idle"
    /\ pc' = [pc EXCEPT ![w] = "fetch"]
    /\ snap' = [snap EXCEPT ![w] = {i \in Items : Matches(i)}]
    /\ UNCHANGED <<Config, embedding_task, retry, age, meta, embeddings, processed_at, lock, batch, idx,
                   processing_ids, tx_marked, results, everDone, call>>

\* The claim statement returns: listener.py 104-114 / 194-202, ingest.py 57-60.
Fetch(w) ==
    /\ pc[w] = "fetch"
    /\ LET got == Claimable(w) IN
        /\ snap' = [snap EXCEPT ![w] = {}]
        /\ \E records \in ResultOrders(got) : batch' = [batch EXCEPT ![w] = records]
        /\ results' = [results EXCEPT ![w] = <<>>]
        /\ lock' = [i \in Items |-> IF i \in got THEN w ELSE lock[i]]
        /\ IF got = {}
           THEN /\ pc' = [pc EXCEPT ![w] = IF run_forever THEN "idle" ELSE "stopped"]
                /\ UNCHANGED processing_ids
           ELSE IF stage = "upl"
           THEN /\ pc' = [pc EXCEPT ![w] = "proc"]
                /\ UNCHANGED processing_ids
           ELSE /\ pc' = [pc EXCEPT ![w] = "mark"]
                /\ processing_ids' = [processing_ids EXCEPT ![w] = got]
    /\ UNCHANGED <<Config, embedding_task, retry, age, meta, embeddings, processed_at, idx, tx_marked,
                   everDone, call>>

\* The claim statement fails in the store: the transaction is rolled back and
\* the exception leaves the loop.
FetchFails(w) ==
    /\ pc[w] = "fetch"
    /\ snap' = [snap EXCEPT ![w] = {}]
    /\ pc' = [pc EXCEPT ![w] = IF stage = "upl" THEN "raised" ELSE "recover"]
    /\ UNCHANGED <<Config, embedding_task, retry, age, meta, embeddings, processed_at, lock, batch, idx,
                   processing_ids, tx_marked, results, everDone, call>>

\* set_is_processing and the commit of the claim transaction:
\* listener.py 115 / 203.
Mark(w) ==
    /\ pc[w] = "mark"
    /\ LET ids == Range(batch[w])
           r == set_is_processing(meta, ids) IN
        /\ lock' = Release(w)
        /\ IF r.raised
           THEN /\ pc' = [pc EXCEPT ![w] = "recover"]
                /\ UNCHANGED <<meta, age>>
           ELSE /\ pc' = [pc EXCEPT ![w] = "proc"]
                /\ meta' = r.meta
                /\ age' = [i \in Items |-> IF i \in ids THEN 0 ELSE age[i]]
    /\ UNCHANGED <<Config, embedding_task, retry, embeddings, processed_at, snap, batch, idx,
                   processing_ids, tx_marked, results, everDone, call>>

\* set_is_processing or the commit fails in the store: rollback.
MarkFails(w) ==
    /\ pc[w] = "mark"
    /\ lock' = Release(w)
    /\ pc' = [pc EXCEPT ![w] = "recover"]
    /\ UNCHANGED <<Config, embedding_task, retry, age, meta, embeddings, processed_at, snap, batch, idx,
                   processing_ids, tx_marked, results, everDone, call>>

\* The next round of "for _chat in _chats", or back to "while True".
NextItem(w) ==
    IF idx[w] < Len(batch[w])
    THEN /\ idx' = [idx EXCEPT ![w] = idx[w] + 1]
         /\ pc' = pc
    ELSE /\ idx' = [idx EXCEPT ![w] = 1]
         /\ pc' = [pc EXCEPT ![w] = "idle"]

LeaveLoop(w, to) ==
    /\ idx' = [idx EXCEPT ![w] = 1]
    /\ pc' = [pc EXCEPT ![w] = to]

Forget(w, item) ==
    processing_ids' = [processing_ids EXCEPT ![w] = processing_ids[w] \ {item}]

Log(w, outcome) == results' = [results EXCEPT ![w] = Append(results[w], outcome)]

\* listener.py 116-138, run_group_messages returns: the else clause, then
\* the finally clause.
SegItemOk(w) ==
    /\ stage = "seg" /\ pc[w] = "proc"
    /\ LET item == batch[w][idx[w]]
           r == set_processing_done(meta, {item}) IN
        /\ r.raised \/ Writable(w, {item})
        /\ meta' = r.meta
        /\ Forget(w, item)
        /\ Log(w, "ok")
        /\ IF r.raised
           THEN LeaveLoop(w, "recover") /\ UNCHANGED everDone
           ELSE NextItem(w) /\ everDone' = everDone \cup {item}
    /\ UNCHANGED <<Config, embedding_task, retry, age, embeddings, processed_at, lock, snap, batch,
                   tx_marked, call>>

\* run_group_messages returns and set_processing_done fails in the store.
SegItemOkNoRec(w) ==
    /\ stage = "seg" /\ pc[w] = "proc"
    /\ Forget(w, batch[w][idx[w]])
    /\ Log(w, "ok_norec")
    /\ LeaveLoop(w, "recover")
    /\ UNCHANGED <<Config, embedding_task, retry, age, meta, embeddings, processed_at, lock, snap, batch,
                   tx_marked, everDone, call>>

\* run_group_messages raises: the except clause (set_processing_error, then
\* raise e unless run_forever), then the finally clause.
SegItemRaise(w) ==
    /\ stage = "seg" /\ pc[w] = "proc"
    /\ LET item == batch[w][idx[w]]
           r == set_processing_error(meta, {item}) IN
        /\ r.raised \/ Writable(w, {item})
        /\ meta' = r.meta
        /\ Forget(w, item)
        /\ Log(w, "raised")
        /\ IF r.raised \/ ~run_forever THEN LeaveLoop(w, "recover") ELSE NextItem(w)
    /\ UNCHANGED <<Config, embedding_task, retry, age, embeddings, processed_at, lock, snap, batch,
                   tx_marked, everDone, call>>

\* run_group_messages raises and set_processing_error fails in the store.
SegItemRaiseNoRec(w) ==
    /\ stage = "seg" /\ pc[w] = "proc"
    /\ Forget(w, batch[w][idx[w]])
    /\ Log(w, "raised_norec")
    /\ LeaveLoop(w, "recover")
    /\ UNCHANGED <<Config, embedding_task, retry, age, meta, embeddings, processed_at, lock, snap, batch,
                   tx_marked, everDone, call>>

\* listener.py 139-143 / 219-223: the outer except clause.
Recover(w) ==
    /\ pc[w] = "recover"
    /\ IF processing_ids[w] = None
       THEN UNCHANGED meta
       ELSE LET r == reset_processing(meta, processing_ids[w]) IN
            /\ r.raised \/ Writable(w, processing_ids[w])
            /\ meta' = r.meta
    /\ pc' = [pc EXCEPT ![w] = "raised"]
    /\ UNCHANGED <<Config, embedding_task, retry, age, embeddings, processed_at, lock, snap, batch, idx,
                   processing_ids, tx_marked, results, everDone, call>>

(***************************************************************************)
(* The embedding worker's batch call: ai/embeddings.py                     *)
(* gen_groups_embeddings, listener.py 204-217.                             *)
(***************************************************************************)
\* itertools.groupby(groups, key=user_id): the runs of consecutive groups of
\* one user.
UserRuns(b) == 1 + Cardinality({j \in 1..(Len(b) - 1) : user_id[b[j]] # user_id[b[j + 1]]})

\* One round of the per-user loop that completes has saved
\* zip(groups, embeddings), a row for every group of the batch, since the
\* round only gets there when len(groups) = len(embeddings).  What the
\* embeddings endpoint answers is the environment's choice.
SavedAfter(w, k) == IF k >= 1 THEN embeddings \cup Range(batch[w]) ELSE embeddings

\* Every round completes; the else clause records done.  _processing_ids
\* keeps the ids of the batch.
EmbOk(w) ==
    /\ stage = "emb" /\ pc[w] = "proc"
    /\ LET ids == Range(batch[w])
           r == set_processing_done(meta, ids) IN
        /\ r.raised \/ Writable(w, ids)
        /\ embeddings' = SavedAfter(w, UserRuns(batch[w]))
        /\ meta' = r.meta
        /\ Log(w, "ok")
        /\ IF r.raised
           THEN /\ pc' = [pc EXCEPT ![w] = "recover"]
                /\ UNCHANGED everDone
           ELSE /\ pc' = [pc EXCEPT ![w] = IF run_forever THEN "idle" ELSE "stopped"]
                /\ everDone' = everDone \cup ids
    /\ UNCHANGED <<Config, embedding_task, retry, age, processed_at, lock, snap, batch, idx, processing_ids,
                   tx_marked, call>>

\* Every round completes and set_processing_done fails in the store.
EmbOkNoRec(w) ==
    /\ stage = "emb" /\ pc[w] = "proc"
    /\ embeddings' = SavedAfter(w, UserRuns(batch[w]))
    /\ Log(w, "ok_norec")
    /\ pc' = [pc EXCEPT ![w] = "recover"]
    /\ UNCHANGED <<Config, embedding_task, retry, age, meta, processed_at, lock, snap, batch, idx,
                   processing_ids, tx_marked, everDone, call>>

\* The call raises after k rounds of the per-user loop have saved their rows:
\* in round k + 1 before its bulk_save (the endpoint, the length check), or
\* in round k at Requests.save (109), which follows the bulk_save.  The
\* rows are saved outside any transaction and stay.  The except clause
\* records the error for the whole batch and clears _processing_ids.
EmbRaise(w) ==
    /\ stage = "emb" /\ pc[w] = "proc"
    /\ \E k \in 0..UserRuns(batch[w]) :
        LET ids == Range(batch[w])
            r == set_processing_error(meta, ids) IN
        /\ r.raised \/ Writable(w, ids)
        /\ embeddings' = SavedAfter(w, k)
        /\ meta' = r.meta
        /\ Log(w, "raised")
        /\ IF r.raised
           THEN /\ pc' = [pc EXCEPT ![w] = "recover"]
                /\ UNCHANGED processing_ids
           ELSE /\ processing_ids' = [processing_ids EXCEPT ![w] = None]
                /\ pc' = [pc EXCEPT ![w] = IF run_forever THEN "idle" ELSE "recover"]
    /\ UNCHANGED <<Config, embedding_task, retry, age, processed_at, lock, snap, batch, idx, tx_marked, everDone, call>>

\* The call raises and set_processing_error fails in the store.
EmbRaiseNoRec(w) ==
    /\ stage = "emb" /\ pc[w] = "proc"
    /\ \E k \in 0..UserRuns(batch[w]) : embeddings' = SavedAfter(w, k)
    /\ Log(w, "raised_norec")
    /\ pc' = [pc EXCEPT ![w] = "recover"]
    /\ UNCHANGED <<Config, embedding_task, retry, age, meta, processed_at, lock, snap, batch, idx,
                   processing_ids, tx_marked, everDone, call>>

(***************************************************************************)
(* The upload worker: listener.py 35-46 over ingest.py process_uploads.    *)
(* The whole pass runs inside the claim transaction.                       *)
(***************************************************************************)
NextUpload(w) ==
    IF idx[w] < Len(batch[w])
    THEN /\ idx' = [idx EXCEPT ![w] = idx[w] + 1]
         /\ pc' = pc
    ELSE /\ idx' = [idx EXCEPT ![w] = 1]
         /\ pc' = [pc EXCEPT ![w] = "commit"]

\* ingest.py 72-85: the file is read, saved as a chat (TelegramGroup.save,
\* db/chat.py 286-295), and the upload marked.
UplItemOk(w) ==
    /\ stage = "upl" /\ pc[w] = "proc"
    /\ meta' = DbChat_bulk_save(meta, internal_code[batch[w][idx[w]]])
    /\ tx_marked' = [tx_marked EXCEPT ![w] = tx_marked[w] \cup {batch[w][idx[w]]}]
    /\ Log(w, "ok")
    /\ NextUpload(w)
    /\ UNCHANGED <<Config, embedding_task, retry, age, embeddings, processed_at, lock, snap, batch,
                   processing_ids, everDone, call>>

\* ingest.py 73-75: s3_get_object returned None, the upload is skipped.
UplItemSkip(w) ==
    /\ stage = "upl" /\ pc[w] = "proc"
    /\ Log(w, "skipped")
    /\ NextUpload(w)
    /\ UNCHANGED <<Config, embedding_task, retry, age, meta, embeddings, processed_at, lock, snap, batch,
                   processing_ids, tx_marked, everDone, call>>

\* Anything raises (the download, the parse, an unsupported source, a store
\* statement): the transaction is rolled back and the worker ends, since
\* listener.py 47 only catches KeyboardInterrupt.
UplItemRaise(w) ==
    /\ stage = "upl" /\ pc[w] = "proc"
    /\ Log(w, "raised")
    /\ tx_marked' = [tx_marked EXCEPT ![w] = {}]
    /\ lock' = Release(w)
    /\ LeaveLoop(w, "raised")
    /\ UNCHANGED <<Config, embedding_task, retry, age, meta, embeddings, processed_at, snap, batch,
                   processing_ids, everDone, call>>

\* The transaction block ends: commit, then sleep when nothing was processed.
UplCommit(w) ==
    /\ stage = "upl" /\ pc[w] = "commit"
    /\ processed_at' = processed_at \cup tx_marked[w]
    /\ everDone' = everDone \cup tx_marked[w]
    /\ tx_marked' = [tx_marked EXCEPT ![w] = {}]
    /\ lock' = Release(w)
    /\ pc' = [pc EXCEPT ![w] = "idle"]
    /\ UNCHANGED <<Config, embedding_task, retry, age, meta, embeddings, snap, batch, idx, processing_ids,
                   results, call>>

\* The commit fails in the store: nothing of the pass is kept.
UplCommitFails(w) ==
    /\ stage = "upl" /\ pc[w] = "commit"
    /\ tx_marked' = [tx_marked EXCEPT ![w] = {}]
    /\ lock' = Release(w)
    /\ pc' = [pc EXCEPT ![w] = "raised"]
    /\ UNCHANGED <<Config, embedding_task, retry, age, meta, embeddings, processed_at, snap, batch, idx,
                   processing_ids, results, everDone, call>>

(***************************************************************************)
(* Cancellation of a worker task: cli/run.py runs the workers as tasks of  *)
(* one asyncio.TaskGroup, which cancels them when the command is           *)
(* interrupted or when one of them ends with an exception.  The task gets  *)
(* asyncio.CancelledError at the await it stands at.  CancelledError is a  *)
(* BaseException: no "except Exception" clause of listener.py takes it     *)
(* (117-133, 139-143, 205-211, 219-223), nor "except KeyboardInterrupt"    *)
(* (47).  What runs is the finally clause of the segmentation loop (136-   *)
(* 138) and the exit of "async with conn.transaction()", which rolls an    *)
(* open transaction back.  A cancelled gen_groups_embeddings has saved the *)
(* rows of the rounds it completed.                                        *)
(***************************************************************************)
Cancel(w) ==
    /\ pc[w] \in {"idle", "fetch", "mark", "proc", "commit", "recover"}
    /\ pc' = [pc EXCEPT ![w] = "cancelled"]
    /\ lock' = Release(w)
    /\ tx_marked' = [tx_marked EXCEPT ![w] = {}]
    /\ snap' = [snap EXCEPT ![w] = {}]
    /\ IF stage = "seg" /\ pc[w] = "proc"
       THEN Forget(w, batch[w][idx[w]])
       ELSE UNCHANGED processing_ids
    /\ IF stage = "emb" /\ pc[w] = "proc"
       THEN \E k \in 0..UserRuns(batch[w]) : embeddings' = SavedAfter(w, k)
       ELSE UNCHANGED embeddings
    /\ UNCHANGED <<Config, embedding_task, retry, age, meta, processed_at, batch, idx, results, everDone, call>>

(***************************************************************************)
(* A worker process that is killed (OOM, deploy, power loss): no clause of *)
(* the worker runs.  The store sees the connection go and rolls the open   *)
(* transaction back; what the statements outside a transaction have        *)
(* committed stays: the status processing of listener.py 115 / 203, the    *)
(* embedding rows gen_groups_embeddings has saved.                         *)
(***************************************************************************)
Kill(w) ==
    /\ pc[w] \in {"idle", "fetch", "mark", "proc", "commit", "recover"}
    /\ pc' = [pc EXCEPT ![w] = "killed"]
    /\ lock' = Release(w)
    /\ tx_marked' = [tx_marked EXCEPT ![w] = {}]
    /\ snap' = [snap EXCEPT ![w] = {}]
    /\ IF stage = "emb" /\ pc[w] = "proc"
       THEN \E k \in 0..UserRuns(batch[w]) : embeddings' = SavedAfter(w, k)
       ELSE UNCHANGED embeddings
    /\ UNCHANGED <<Config, embedding_task, retry, age, meta, processed_at, batch, idx, processing_ids,
                   results, everDone, call>>

(***************************************************************************)
(* Time and the stuck-item reaper.  cli/run.py starts                      *)
(* process_stuck_chats_worker(pool, debug, threshold_minutes) next to the  *)
(* segmentation and embedding workers; its body is not part of the         *)
(* sources at hand, cli/listener.py neither defines nor exports it.  The   *)
(* pass below is the one the specification describes: rows with status     *)
(* processing whose started timestamp is older than the threshold have     *)
(* their status removed, the rest of their metadata and every other row    *)
(* stay as they are.                                                       *)
(***************************************************************************)
stuck_threshold == 30   \* Option(30, "--stuck-threshold"), minutes
TickMinutes == 20       \* the time that passes in one Tick
MaxAge == 45            \* ages are followed up to here

\* Time passes.  Only the age of a row in processing is ever read, and it is
\* followed only while the row is in processing.
Ages(i) == Status(i) = "processing" /\ age[i] + TickMinutes <= MaxAge

Tick ==
    /\ \E i \in Items : Ages(i)
    /\ age' = [i \in Items |-> IF Ages(i) THEN age[i] + TickMinutes ELSE age[i]]
    /\ UNCHANGED <<Config, embedding_task, retry, meta, embeddings, processed_at, lock, pc, snap, batch,
                   idx, processing_ids, tx_marked, results, everDone, call>>

\* Mutation: the reaper takes every row in processing, whatever its age.
StuckWhateverAge(i) == Status(i) = "processing"

\* status = processing AND started_at < now() - threshold
Stuck(i) == Status(i) = "processing" /\ age[i] > stuck_threshold

\* reset(ids): removes the status field and leaves other metadata untouched
reset(m, ids) == UpdateWhere(m, ids, [i \in DOMAIN m |-> ColumnMinus(m[i], StatusKey)])

\* One pass of the reaper, a single UPDATE.
process_stuck_chats_worker ==
    LET ids == {i \in Items : Stuck(i)} IN
    /\ stage \in {"seg", "emb"}
    /\ Writable(0, ids)
    /\ meta' = reset(meta, ids)
    /\ UNCHANGED <<Config, embedding_task, retry, age, embeddings, processed_at, lock, pc, snap, batch,
                   idx, processing_ids, tx_marked, results, everDone, call>>

(***************************************************************************)
(* common/models/utils.py retry_async: one call of the wrapper it returns. *)
(* Delays are whole seconds.  retry.calls lists what each call of the      *)
(* wrapped function did, retry.sleeps the arguments of asyncio.sleep.      *)
(***************************************************************************)
default_max_attempts == 3      \* max_attempts: int = 3
default_delay == 1             \* delay: float = 1.0
default_backoff_factor == 2    \* backoff_factor: float = 2.0

MaxAttempts == 3      \* max_attempts is drawn from -1..MaxAttempts
MaxDelay == 2         \* delay from 1..MaxDelay
MaxBackoff == 2       \* backoff_factor from 1..MaxBackoff
MaxRetryDelay == 5    \* TooManyRequestsError.retry_delay from {1, MaxRetryDelay}

TooManyRequests == "TooManyRequestsError"
QuotaExceeded == "QuotaExceededError"

\* The exception classes the wrapped function raises here; each of them
\* derives from Exception (utils.py 97-98, 116-117; ValueError and TypeError
\* are built in).
Errors == {"ValueError", "TypeError", TooManyRequests, QuotaExceeded}

\* What a call of the wrapped function does: it returns, or raises e.
Returned == [type |-> "ok", retry_delay |-> 0]
\* ... or returns None
ReturnedNone == [type |-> "None", retry_delay |-> 0]
Raises ==
    {[type |-> t, retry_delay |-> 0] : t \in Errors \ {TooManyRequests}}
        \cup {[type |-> TooManyRequests, retry_delay |-> d] : d \in {1, MaxRetryDelay}}

\* isinstance(e, c)
IsInstance(t, c) == c = t \/ c = "Exception"

\* The wrapper at its first attempt: last_exception = None,
\* current_delay = delay.  _backoff_factor None is written 0.
Wrapper(max_attempts, delay, backoff_factor, jitter, exceptions, reraise) ==
    [max_attempts |-> max_attempts, delay |-> delay,
     backoff_factor |-> backoff_factor, jitter |-> jitter,
     exceptions |-> exceptions, reraise_on_final_attempt |-> reraise,
     attempt |-> 1, current_delay |-> delay, actual_delay |-> 0,
     backoff_after_sleep |-> 0, calls |-> <<>>, sleeps |-> <<>>,
     pc |-> "call", result |-> "none"]

\* Mutation: every exception is taken by "except exceptions".
RetryableAny(t) == TRUE

\* except exceptions as e
Retryable(t) == \E c \in retry.exceptions : IsInstance(t, c)

\* Mutation: the loop gives up one attempt late.
FinalAttemptLate == retry.attempt > retry.max_attempts

\* if attempt == max_attempts
FinalAttempt == retry.attempt = retry.max_attempts

\* Mutation: the delay the exception carries is not looked at.
BaseDelayOfSchedule(e) == retry.current_delay

\* e.retry_delay for a TooManyRequestsError, else current_delay
BaseDelay(e) == IF e.type = TooManyRequests THEN e.retry_delay ELSE retry.current_delay

\* Mutation: the factor is kept for a TooManyRequestsError as well.
BackoffAfterSleepAlways(e) == retry.backoff_factor

\* _backoff_factor: None (0) for a TooManyRequestsError, else backoff_factor
BackoffAfterSleep(e) == IF e.type = TooManyRequests THEN 0 ELSE retry.backoff_factor

\* base * (0.5 + random.random() if jitter else 1): with jitter, a value of
\* [base / 2, 3 * base / 2), taken here to whole seconds.
Jittered(base) ==
    IF retry.jitter
    THEN {x \in 0..(2 * base) : 2 * x >= base /\ 2 * x < 3 * base}
    ELSE {base}

\* Mutation: the body of the loop runs once whatever max_attempts is.
InLoopAtLeastOnce == retry.attempt <= retry.max_attempts \/ retry.attempt = 1

\* for attempt in range(1, max_attempts + 1)
InLoop == retry.attempt <= retry.max_attempts

\* return await func(*args, **kwargs)
WrappedReturns ==
    /\ retry.pc = "call" /\ InLoop
    /\ \E r \in {Returned, ReturnedNone} :
         retry' = [retry EXCEPT !.calls = Append(@, r),
                                !.pc = "returned",
                                !.result = IF r = Returned THEN "success" ELSE "None"]
    /\ UNCHANGED <<Config, embedding_task, age, meta, embeddings, processed_at, lock, pc, snap,
                   batch, idx, processing_ids, tx_marked, results, everDone, call>>

\* func raises e: lines 165-193, up to the sleep, or 198-200.
WrappedRaises ==
    /\ retry.pc = "call" /\ InLoop
    /\ \E e \in Raises :
        LET called == [retry EXCEPT !.calls = Append(@, e)] IN
        IF ~Retryable(e.type)
        THEN retry' = [called EXCEPT !.pc = "raised", !.result = e.type]
        ELSE IF FinalAttempt
        THEN IF retry.reraise_on_final_attempt
             THEN retry' = [called EXCEPT !.pc = "raised", !.result = e.type]
             ELSE retry' = [called EXCEPT !.pc = "returned", !.result = "None"]
        ELSE \E actual_delay \in Jittered(BaseDelay(e)) :
             retry' = [called EXCEPT
                          !.actual_delay = actual_delay,
                          !.current_delay =
                              IF e.type = TooManyRequests
                              THEN @ ELSE @ * retry.backoff_factor,
                          !.backoff_after_sleep = BackoffAfterSleep(e),
                          !.pc = "sleep"]
    /\ UNCHANGED <<Config, embedding_task, age, meta, embeddings, processed_at, lock, pc, snap,
                   batch, idx, processing_ids, tx_marked, results, everDone, call>>

\* await asyncio.sleep(actual_delay), lines 195-197, and the next round of
\* "for attempt in range(1, max_attempts + 1)".
Sleep ==
    /\ retry.pc = "sleep"
    /\ retry' = [retry EXCEPT
                    !.sleeps = Append(@, retry.actual_delay),
                    !.current_delay =
                        IF retry.backoff_after_sleep # 0
                        THEN @ * retry.backoff_after_sleep ELSE @,
                    !.attempt = @ + 1,
                    !.pc = "call"]
    /\ UNCHANGED <<Config, embedding_task, age, meta, embeddings, processed_at, lock, pc, snap,
                   batch, idx, processing_ids, tx_marked, results, everDone, call>>

\* The loop is over without a return or a raise, lines 202-205: "if
\* last_exception and reraise_on_final_attempt: raise last_exception", else
\* "return None".  last_exception is what the last call raised.
LoopEnds ==
    /\ retry.pc = "call" /\ ~InLoop
    /\ LET last_exception ==
             IF retry.calls = <<>> THEN "None" ELSE retry.calls[Len(retry.calls)].type IN
        IF last_exception # "None" /\ retry.reraise_on_final_attempt
        THEN retry' = [retry EXCEPT !.pc = "raised", !.result = last_exception]
        ELSE retry' = [retry EXCEPT !.pc = "returned", !.result = "None"]
    /\ UNCHANGED <<Config, embedding_task, age, meta, embeddings, processed_at, lock, pc, snap,
                   batch, idx, processing_ids, tx_marked, results, everDone, call>>

(***************************************************************************)
(* Specifications.                                                         *)
(***************************************************************************)
NoKeylessChat == [i \in Items |-> TRUE]
OneUser == [i \in Items |-> 1]
\* every upload is the export of another group
OwnCode == [i \in Items |-> i]

InitTables ==
    /\ meta = [i \in Items |-> Null]
    /\ embeddings = {}
    /\ processed_at = {}
    /\ lock = [i \in Items |-> 0]
    /\ everDone = {}
    /\ call = [op |-> "none", ids |-> {}, raised |-> FALSE, before |-> meta]
    /\ age = [i \in Items |-> 0]
    /\ embedding_task = "running"

\* The tables, with no wrapped call under way.
InitStore ==
    /\ InitTables
    /\ retry = Wrapper(default_max_attempts, default_delay, default_backoff_factor,
                       TRUE, {"Exception"}, TRUE)

InitWorkers(n) ==
    /\ pc = [w \in 1..n |-> "idle"]
    /\ snap = [w \in 1..n |-> {}]
    /\ batch = [w \in 1..n |-> <<>>]
    /\ idx = [w \in 1..n |-> 1]
    /\ processing_ids = [w \in 1..n |-> None]
    /\ tx_marked = [w \in 1..n |-> {}]
    /\ results = [w \in 1..n |-> <<>>]

InitSeg ==
    /\ stage = "seg"
    /\ run_forever \in BOOLEAN
    /\ limit \in Limits
    /\ only_with_keys \in BOOLEAN
    /\ api_key \in [Items -> BOOLEAN]
    /\ ~only_with_keys => api_key = NoKeylessChat
    /\ user_id = OneUser
    /\ internal_code = OwnCode

InitEmb ==
    /\ stage = "emb"
    /\ run_forever \in BOOLEAN
    /\ limit \in Limits
    /\ only_with_keys = FALSE
    /\ api_key = NoKeylessChat
    /\ user_id \in [Items -> Users]
    \* creators are numbered in the order of their first group
    /\ \A i \in Items : \A u \in 1..(user_id[i] - 1) : \E j \in 1..(i - 1) : user_id[j] = u
    /\ internal_code = OwnCode

InitUpl ==
    /\ stage = "upl"
    /\ run_forever = TRUE
    /\ limit \in Limits
    /\ only_with_keys = FALSE
    /\ api_key = NoKeylessChat
    /\ user_id = OneUser
    /\ internal_code = OwnCode

Init ==
    /\ InitSeg \/ InitEmb \/ InitUpl
    /\ InitStore
    /\ InitWorkers(NumWorkers)

Claim(w) == Begin(w) \/ Fetch(w) \/ FetchFails(w)

SegStep(w) ==
    \/ Mark(w) \/ MarkFails(w)
    \/ SegItemOk(w) \/ SegItemOkNoRec(w) \/ SegItemRaise(w) \/ SegItemRaiseNoRec(w)
    \/ Recover(w)

EmbStep(w) ==
    \/ Mark(w) \/ MarkFails(w)
    \/ EmbOk(w) \/ EmbOkNoRec(w) \/ EmbRaise(w) \/ EmbRaiseNoRec(w)
    \/ Recover(w)

UplStep(w) ==
    \/ UplItemOk(w) \/ UplItemSkip(w) \/ UplItemRaise(w)
    \/ UplCommit(w) \/ UplCommitFails(w)

Step(w) == Claim(w) \/ SegStep(w) \/ EmbStep(w) \/ UplStep(w)

Next == \E w \in 1..NumWorkers : Step(w)

Spec == Init /\ [][Next]_vars

(***************************************************************************)
(* The status statements called directly on a table, one call after        *)
(* another: db/chat.py 80-133, db/ai.py 90-147.                            *)
(***************************************************************************)
Called(op, ids, r) ==
    /\ meta' = r.meta
    /\ call' = [op |-> op, ids |-> ids, raised |-> r.raised, before |-> meta]
    \* set_is_processing writes now() as the started timestamp
    /\ age' = [i \in Items |->
                 IF op = "set_is_processing" /\ ~r.raised /\ i \in ids THEN 0 ELSE age[i]]
    /\ UNCHANGED <<Config, embedding_task, retry, embeddings, processed_at, lock, pc, snap, batch, idx,
                   processing_ids, tx_marked, results, everDone>>

CallSetIsProcessing(ids) == Called("set_is_processing", ids, set_is_processing(meta, ids))
CallSetProcessingError(ids) == Called("set_processing_error", ids, set_processing_error(meta, ids))
CallSetProcessingDone(ids) == Called("set_processing_done", ids, set_processing_done(meta, ids))
CallResetProcessing(ids) == Called("reset_processing", ids, reset_processing(meta, ids))

InitCalls ==
    /\ InitSeg \/ InitEmb
    /\ run_forever /\ limit = 1 /\ ~only_with_keys /\ user_id = OneUser
    /\ InitStore
    /\ InitWorkers(1)

NextCalls ==
    \E ids \in SUBSET Items :
        \/ CallSetIsProcessing(ids)
        \/ CallSetProcessingError(ids)
        \/ CallSetProcessingDone(ids)
        \/ CallResetProcessing(ids)

SpecCalls == InitCalls /\ [][NextCalls]_vars

\* The reaper's pass called on the tables the status statements leave, while
\* time passes.
CallReaper ==
    LET ids == {i \in Items : Stuck(i)} IN
    Called("process_stuck_chats_worker", ids, Ok(reset(meta, ids)))

NextReaperCalls == NextCalls \/ Tick \/ CallReaper

SpecReaperCalls == InitCalls /\ [][NextReaperCalls]_vars

\* The embedding workers that keep running, each scheduled again and again
\* by the event loop (asyncio tasks of cli/run.py) over a store that answers.
InitLive ==
    /\ InitEmb
    /\ run_forever
    /\ InitStore
    /\ InitWorkers(NumWorkers)

NextLive == \E w \in 1..NumWorkers : Claim(w) \/ EmbStep(w)

LiveSpec ==
    /\ InitLive
    /\ [][NextLive]_vars
    /\ \A w \in 1..NumWorkers : WF_vars(Claim(w) \/ EmbStep(w))

\* The embedding stage alone with one more worker: the workers of one
\* "embeddings" pool (cli/run.py: nb_workers tasks over one store).
InitRace ==
    /\ InitEmb
    /\ user_id = OneUser
    /\ InitStore
    /\ InitWorkers(NumRaceWorkers)

NextRace == \E w \in 1..NumRaceWorkers : Claim(w) \/ EmbStep(w)

SpecRace == InitRace /\ [][NextRace]_vars

\* The workers as tasks of a TaskGroup that may be cancelled at any await.
NextCancel == \E w \in 1..NumWorkers : Step(w) \/ Cancel(w)

SpecCancel == Init /\ [][NextCancel]_vars

\* The listeners of cli/run.py next to the reaper, while time passes and
\* workers get killed.  The commands start every worker with the defaults
\* of its parameters: run_forever, limit 1 (chunk_size 100, the whole queue
\* here, for the embedding workers).
InitReaper ==
    /\ Init
    /\ run_forever
    /\ limit = (IF stage = "emb" THEN NumItems ELSE 1)

NextReaper ==
    \/ \E w \in 1..NumWorkers : Step(w) \/ Kill(w)
    \/ Tick
    \/ process_stuck_chats_worker

SpecReaper ==
    /\ InitReaper
    /\ [][NextReaper]_vars
    /\ \A w \in 1..NumWorkers : WF_vars(Step(w))
    /\ WF_vars(Tick)
    /\ WF_vars(process_stuck_chats_worker)

\* The tasks of _listen_chat_groups (cli/run.py 115-129) as the
\* segmentation workers see them: they run in one asyncio.TaskGroup with the
\* embedding workers.  An embedding task may stall (an await that does not
\* return) or end with an exception (listener.py 219-223 re-raises what
\* leaves the loop).  When a task of a TaskGroup ends with an exception the
\* group cancels every task that is still running.
EmbeddingStalls ==
    /\ embedding_task = "running"
    /\ embedding_task' = "stalled"
    /\ UNCHANGED <<Config, retry, age, meta, embeddings, processed_at, lock, pc, snap, batch,
                   idx, processing_ids, tx_marked, results, everDone, call>>

EmbeddingRaises ==
    /\ embedding_task = "running"
    /\ embedding_task' = "raised"
    /\ UNCHANGED <<Config, retry, age, meta, embeddings, processed_at, lock, pc, snap, batch,
                   idx, processing_ids, tx_marked, results, everDone, call>>

TaskRaised == embedding_task = "raised" \/ \E v \in Workers : pc[v] = "raised"

GroupCancels(w) == TaskRaised /\ Cancel(w)

InitGroup ==
    /\ InitSeg
    /\ run_forever /\ limit = 1 /\ only_with_keys
    /\ InitStore
    /\ InitWorkers(NumWorkers)

NextGroup ==
    \/ \E w \in 1..NumWorkers : Claim(w) \/ SegStep(w) \/ GroupCancels(w)
    \/ EmbeddingStalls
    \/ EmbeddingRaises

SpecGroup == InitGroup /\ [][NextGroup]_vars

(***************************************************************************)
(* The connection pool of _listen_chat_groups.  get_pool (pg.py 57-61)     *)
(* calls asyncpg.create_pool without a size, which gives a pool of at most *)
(* 10 connections.  Every worker takes one with "async with                *)
(* pool.acquire() as conn" around its whole loop (listener.py 97, 187) and *)
(* gives it back when the loop is left; acquire() has no timeout.  The     *)
(* tasks are created in the order stuck-chat task, segmentation workers,   *)
(* embedding workers (cli/run.py 116-129), and the pool serves them in     *)
(* that order.  pc "acquire": the task waits in pool.acquire().            *)
(***************************************************************************)
DEFAULT_NB_WORKERS == 10
pool_max_size == 10
NumTasks == 1 + DEFAULT_NB_WORKERS + DEFAULT_NB_WORKERS

Holding(w) == pc[w] # "acquire"

Acquire(w) ==
    /\ pc[w] = "acquire"
    /\ \A v \in 1..(w - 1) : Holding(v)
    /\ Cardinality({v \in Workers : Holding(v)}) < pool_max_size
    /\ pc' = [pc EXCEPT ![w] = "idle"]
    /\ UNCHANGED <<Config, embedding_task, retry, age, meta, embeddings, processed_at, lock,
                   snap, batch, idx, processing_ids, tx_marked, results, everDone, call>>

\* A worker that has its connection polls: the claim statement, and the
\* sleep when it returns nothing.  Task 1 is the stuck-chat task.
Poll(w) == w > 1 /\ Holding(w) /\ (Begin(w) \/ Fetch(w))

\* The store has no work: no chat's creator has a key, so every claim
\* returns nothing and the workers keep polling.
InitPool ==
    /\ InitSeg
    /\ run_forever /\ limit = 1 /\ only_with_keys
    /\ api_key = [i \in Items |-> FALSE]
    /\ InitStore
    /\ pc = [w \in 1..NumTasks |-> "acquire"]
    /\ snap = [w \in 1..NumTasks |-> {}]
    /\ batch = [w \in 1..NumTasks |-> <<>>]
    /\ idx = [w \in 1..NumTasks |-> 1]
    /\ processing_ids = [w \in 1..NumTasks |-> None]
    /\ tx_marked = [w \in 1..NumTasks |-> {}]
    /\ results = [w \in 1..NumTasks |-> <<>>]

NextPool == \E w \in 1..NumTasks : Acquire(w) \/ Poll(w)

SpecPool ==
    /\ InitPool
    /\ [][NextPool]_vars
    /\ \A w \in 1..NumTasks : WF_vars(Acquire(w)) /\ WF_vars(Poll(w))

\* A wrapper of retry_async called once, whatever its parameters and
\* whatever the wrapped function does at each call.
InitRetry ==
    /\ InitSeg
    /\ run_forever /\ limit = 1 /\ ~only_with_keys
    /\ InitTables
    /\ InitWorkers(1)
    /\ \E max_attempts \in (-1)..MaxAttempts, delay \in 1..MaxDelay,
          backoff_factor \in 1..MaxBackoff, jitter \in BOOLEAN,
          exceptions \in {{"Exception"}, {"ValueError"}, {"ValueError", TooManyRequests}},
          reraise \in BOOLEAN :
            retry = Wrapper(max_attempts, delay, backoff_factor, jitter, exceptions, reraise)

NextRetry == WrappedReturns \/ WrappedRaises \/ Sleep \/ LoopEnds

SpecRetry == InitRetry /\ [][NextRetry]_vars

(***************************************************************************)
(* The hand-off from ingestion to segmentation.  The stage is "upl": the   *)
(* rows are uploads, and meta is here the meta column of general.chats,    *)
(* indexed by internal_code.  The segmentation stage is taken by what it   *)
(* does to a chat: listener.py 58-72 and 106 claim it, 116-136 record it.  *)
(***************************************************************************)
\* the chat exists once an upload saved as it has committed
ChatExists(c) == \E u \in processed_at : internal_code[u] = c

\* the ON CONFLICT DO UPDATE of an open upload transaction locks the chat row
SavingChat(c) == \E w \in Workers : \E u \in tx_marked[w] : internal_code[u] = c

\* _get_chats_not_grouped returns the chat (SKIP LOCKED) and
\* set_is_processing commits
SegClaims(c) ==
    /\ stage = "upl" /\ ChatExists(c) /\ ChatsWhere(c) /\ ~SavingChat(c)
    /\ meta' = DbChat_set_is_processing(meta, {c}).meta
    /\ UNCHANGED <<Config, embedding_task, retry, age, embeddings, processed_at, lock, pc, snap, batch, idx,
                   processing_ids, tx_marked, results, everDone, call>>

\* run_group_messages returned: the else clause records done
SegRecordsDone(c) ==
    /\ stage = "upl" /\ Status(c) = "processing"
    /\ meta' = DbChat_set_processing_done(meta, {c}).meta
    /\ UNCHANGED <<Config, embedding_task, retry, age, embeddings, processed_at, lock, pc, snap, batch, idx,
                   processing_ids, tx_marked, results, everDone, call>>

InitHandoff ==
    /\ stage = "upl"
    /\ run_forever = TRUE
    /\ limit \in Limits
    /\ only_with_keys = FALSE
    /\ api_key = NoKeylessChat
    /\ user_id = OneUser
    /\ internal_code \in [Items -> Items]
    /\ InitStore
    /\ InitWorkers(NumWorkers)

NextHandoff ==
    \/ \E w \in 1..NumWorkers : Claim(w) \/ UplStep(w)
    \/ \E c \in 1..NumItems : SegClaims(c) \/ SegRecordsDone(c)

SpecHandoff == InitHandoff /\ [][NextHandoff]_vars

(***************************************************************************)
(* What the claims speak of.                                               *)
(***************************************************************************)
\* The claim transaction of w is open and its statement has returned.
OpenClaim(w) == pc[w] = "mark" \/ (stage = "upl" /\ pc[w] \in {"proc", "commit"})

\* The rows w's processor is working on or still has to work on in this pass.
InFlight(w) ==
    IF pc[w] = "proc" THEN {batch[w][j] : j \in idx[w]..Len(batch[w])} ELSE {}

\* The claim statement of w returns in this step.
Returns(w) == pc[w] = "fetch" /\ pc'[w] # "fetch" /\ snap'[w] = {} /\ results'[w] = <<>>

C2_Exclusive ==
    \A w, v \in Workers : w # v => InFlight(w) \cap InFlight(v) = {}

Polling == \E w \in Workers : pc[w] = "fetch"
Claimed(i) == \E w \in Workers : pc[w] = "mark" /\ i \in Range(batch[w])

C4_NoLoss ==
    ([]<>Polling) => \A i \in Items : (Matches(i) ~> Claimed(i))

(***************************************************************************)
(* C5  Recovery on exception.  When a segmentation or embedding worker has *)
(* ended with an exception, no item of its last claim is left with status  *)
(* processing, unless another worker has claimed the item since and is     *)
(* still at work on it.                                                    *)
(***************************************************************************)
HeldByOther(i, w) ==
    \E v \in Workers \ {w} : pc[v] \in {"proc", "recover"} /\ i \in Range(batch[v])

C5_RecoveredOnExit ==
    \A w \in Workers :
        (stage \in {"seg", "emb"} /\ pc[w] = "raised")
            => \A i \in Range(batch[w]) :
                   Status(i) = "processing" => HeldByOther(i, w)

(***************************************************************************)
(* C6  Recovery idempotence.  reset_processing called on ids whose status  *)
(* is already absent (as it is after a first reset) completes without an   *)
(* error and leaves the table as it was.                                   *)
(***************************************************************************)
C6_ResetIdempotent ==
    (/\ call.op = "reset_processing"
     /\ \A i \in call.ids : StatusIn(call.before, i) = "NULL")
        => (~call.raised /\ meta = call.before)

(***************************************************************************)
(* C7  Per-item independence (segmentation).  A chat whose processor call  *)
(* returns gets status done and a chat whose processor call raises gets    *)
(* status error, each at its own round of the loop; with run_forever the   *)
(* loop goes on to the chats after a failed one.                           *)
(***************************************************************************)
C7_PerItem ==
    [][\A w \in Workers :
          (stage = "seg" /\ pc[w] = "proc") =>
              LET item == batch[w][idx[w]] IN
              /\ results'[w] = Append(results[w], "ok")
                    => StatusIn(meta', item) = "done"
              /\ results'[w] = Append(results[w], "raised")
                    => /\ StatusIn(meta', item) = "error"
                       /\ (run_forever /\ idx[w] < Len(batch[w])) => pc'[w] = "proc"]_vars

(***************************************************************************)
(* C8  Batch-mode all-or-nothing (embedding).  When gen_groups_embeddings  *)
(* raises on a claimed batch, the worker leaves every group of the batch   *)
(* with embeddings_status error, an error timestamp and an error message;  *)
(* none is left done.                                                      *)
(***************************************************************************)
C8_BatchError ==
    [][\A w \in Workers :
          (stage = "emb" /\ pc[w] = "proc" /\ results'[w] = Append(results[w], "raised"))
              => \A i \in Range(batch[w]) :
                     /\ StatusIn(meta', i) = "error"
                     /\ HasIn(meta', i, ErrorAtKey)
                     /\ HasIn(meta', i, ErrorMessageKey)]_vars

\* A batch of two groups has failed: both are error, with both error fields.
C8_Witness ==
    \E w \in Workers :
        /\ stage = "emb" /\ results[w] = <<"raised">> /\ Len(batch[w]) = 2
        /\ \A i \in Range(batch[w]) :
               Status(i) = "error" /\ Has(i, ErrorAtKey) /\ Has(i, ErrorMessageKey)

(***************************************************************************)
(* C9  With run_forever false, a processor failure ends the worker call    *)
(* with an exception, the failing items are recorded error with the        *)
(* started and error timestamps, and the outer except clause that runs     *)
(* before the exception leaves does not touch them.                        *)
(***************************************************************************)
Failing(w) ==
    IF stage = "seg" THEN {batch[w][Len(results[w])]} ELSE Range(batch[w])

C9_ErrorKept ==
    [][\A w \in Workers :
          (~run_forever /\ stage \in {"seg", "emb"}) =>
              /\ (pc[w] = "proc" /\ results'[w] = Append(results[w], "raised"))
                    => /\ pc'[w] = "recover"
                       /\ \A i \in Range(batch[w]) :
                              (stage = "emb" \/ i = batch[w][idx[w]])
                                  => /\ StatusIn(meta', i) = "error"
                                     /\ HasIn(meta', i, StartedKey)
                                     /\ HasIn(meta', i, ErrorAtKey)
              /\ (/\ pc[w] = "recover" /\ pc'[w] # "recover"
                  /\ results[w] # <<>>
                  /\ results[w][Len(results[w])] = "raised")
                    => /\ pc'[w] = "raised"
                       /\ \A i \in Failing(w) : meta'[i] = meta[i]]_vars

C11_KeepsPolling ==
    [][\A w \in Workers :
          (run_forever /\ pc[w] = "proc" /\ results'[w] = Append(results[w], "raised"))
              => pc'[w] \in {"proc", "commit", "idle"}]_vars

(***************************************************************************)
(* C12  A worker that is cancelled while it holds claimed items leaves     *)
(* none of them with status processing: at the step in which the           *)
(* cancellation ends its loop, every item it was working on or had still   *)
(* to work on has reached done or error or has been reset to pending.      *)
(***************************************************************************)
C12_NoneAbandoned ==
    [][\A w \in Workers :
          (pc[w] # "cancelled" /\ pc'[w] = "cancelled")
              => \A i \in InFlight(w) : StatusIn(meta', i) # "processing"]_vars

Orphaned(w, i) ==
    /\ pc[w] = "killed" /\ i \in Range(batch[w]) /\ ~HeldByOther(i, w)
    /\ IF stage = "upl" THEN i \notin processed_at ELSE Status(i) = "processing"

C14_NoOrphan ==
    ([]<>Polling) =>
        \A w \in 1..NumWorkers : \A i \in Items :
            Orphaned(w, i) ~> (Status(i) = "NULL" /\ Matches(i))

(***************************************************************************)
(* C15  Backoff schedule of retry_async.  With jitter off and no           *)
(* TooManyRequestsError among the failures, the n-th sleep is              *)
(* delay * backoff_factor^(n-1); with max_attempts 3, delay 1.0 and        *)
(* backoff_factor 2.0, a function that fails twice and then returns is     *)
(* called three times, the sleeps are 1.0 then 2.0, and its value is       *)
(* returned.                                                               *)
(***************************************************************************)
Pow(b, n) == LET p[k \in 0..n] == IF k = 0 THEN 1 ELSE b * p[k - 1] IN p[n]

ValueError == [type |-> "ValueError", retry_delay |-> 0]

C15_BackoffSchedule ==
    (/\ ~retry.jitter
     /\ \A k \in 1..Len(retry.calls) : retry.calls[k].type # TooManyRequests)
        => /\ \A n \in 1..Len(retry.sleeps) :
                  retry.sleeps[n] = retry.delay * Pow(retry.backoff_factor, n - 1)
           /\ (/\ retry.max_attempts = default_max_attempts
               /\ retry.delay = default_delay
               /\ retry.backoff_factor = default_backoff_factor
               /\ retry.calls = <<ValueError, ValueError, Returned>>)
                 => (retry.sleeps = <<1, 2>> /\ retry.result = "success")

(***************************************************************************)
(* C16  Quota abort.  Under retry_async() as gemini fetch_completion is    *)
(* decorated (the defaults: three attempts, every Exception retried), a    *)
(* function that raises QuotaExceededError at its first call is called     *)
(* once, no sleep happens and the QuotaExceededError leaves the wrapper.   *)
(***************************************************************************)
C16_QuotaAbort ==
    (/\ retry.max_attempts = default_max_attempts
     /\ retry.exceptions = {"Exception"}
     /\ retry.reraise_on_final_attempt
     /\ retry.calls # <<>>
     /\ retry.calls[1].type = QuotaExceeded)
        => /\ Len(retry.calls) = 1
           /\ retry.sleeps = <<>>
           /\ retry.pc = "raised"
           /\ retry.result = QuotaExceeded

(***************************************************************************)
(* C17  Rate-limit override.  With jitter off, the sleep that follows a    *)
(* call that raised TooManyRequestsError with retry_delay d is a sleep of  *)
(* exactly d, wherever the exponential schedule stands.                    *)
(***************************************************************************)
C17_RateLimitDelay ==
    ~retry.jitter =>
        \A n \in 1..Len(retry.sleeps) :
            retry.calls[n].type = TooManyRequests
                => retry.sleeps[n] = retry.calls[n].retry_delay

\* After an ordinary failure has moved the schedule on, a call raised
\* TooManyRequestsError with the long delay, and the wrapper has slept.
C17_Witness ==
    /\ ~retry.jitter /\ retry.backoff_factor > 1
    /\ Len(retry.sleeps) = 2
    /\ retry.calls[1].type = "ValueError"
    /\ retry.calls[2] = [type |-> TooManyRequests, retry_delay |-> MaxRetryDelay]

(***************************************************************************)
(* C18  Retry exhaustion, for max_attempts >= 1.  The wrapped function is  *)
(* never called more than max_attempts times; when every call raises an    *)
(* exception the wrapper                                                   *)
(* retries (TooManyRequestsError included) and reraise_on_final_attempt    *)
(* has its default, the wrapper ends after exactly max_attempts calls and  *)
(* max_attempts - 1 sleeps by raising the exception of the last call.      *)
(***************************************************************************)
Caught(t) == t \in retry.exceptions \/ "Exception" \in retry.exceptions

C18_Exhaustion ==
    retry.max_attempts >= 1 =>
        /\ Len(retry.calls) <= retry.max_attempts
        /\ (/\ retry.reraise_on_final_attempt
            /\ retry.pc \in {"raised", "returned"}
            /\ \A k \in 1..Len(retry.calls) :
                   retry.calls[k].type \in Errors /\ Caught(retry.calls[k].type))
              => /\ Len(retry.calls) = retry.max_attempts
                 /\ Len(retry.sleeps) = retry.max_attempts - 1
                 /\ retry.pc = "raised"
                 /\ retry.result = retry.calls[Len(retry.calls)].type

\* The wrapper has given up after the largest number of attempts, every one
\* of which raised TooManyRequestsError.
C18_Witness ==
    /\ retry.pc = "raised" /\ retry.max_attempts = MaxAttempts
    /\ Len(retry.calls) = MaxAttempts /\ Len(retry.sleeps) = MaxAttempts - 1
    /\ \A k \in 1..MaxAttempts : retry.calls[k].type = TooManyRequests

(***************************************************************************)
(* C19  An exception that is an instance of none of the configured types   *)
(* is not retried: the function is called once, no sleep happens, and the  *)
(* exception leaves the wrapper as it is.                                  *)
(***************************************************************************)
C19_NonMatching ==
    (/\ retry.calls # <<>>
     /\ retry.calls[1].type \in Errors
     /\ ~Caught(retry.calls[1].type))
        => /\ Len(retry.calls) = 1
           /\ retry.sleeps = <<>>
           /\ retry.pc = "raised"
           /\ retry.result = retry.calls[1].type

\* exceptions=(ValueError,) and a function that raises TypeError.
C19_Witness ==
    /\ retry.exceptions = {"ValueError"}
    /\ retry.calls = <<[type |-> "TypeError", retry_delay |-> 0]>>
    /\ retry.pc = "raised"

(***************************************************************************)
(* C20  started_at.  In the segmentation and embedding stages a row with   *)
(* status done or error carries its started timestamp                      *)
(* (processing_started_at / embeddings_started_at), and the timestamp was  *)
(* already there, written by set_is_processing at the claim, before the    *)
(* step that made the row done or error.                                   *)
(***************************************************************************)
C20_StartedBeforeTerminal ==
    [][\A i \in Items :
          (stage \in {"seg", "emb"} /\ StatusIn(meta', i) \in {"done", "error"})
              => /\ HasIn(meta', i, StartedKey)
                 /\ StatusIn(meta', i) # Status(i) => Has(i, StartedKey)]_vars

\* One row has been recorded done and another error, both by workers that
\* had claimed them, and both carry the started timestamp.
C20_Witness ==
    \E i, j \in Items :
        /\ Status(i) = "done" /\ Status(j) = "error"
        /\ Has(i, StartedKey) /\ Has(j, StartedKey)
        /\ \E w \in Workers : results[w] # <<>> /\ i \in Range(batch[w])

(***************************************************************************)
(* C21  With only_with_keys, a segmentation worker never claims a chat     *)
(* whose creator has no API key for the model's source: the chat is in no  *)
(* worker's batch and its metadata stays as it was, with no status and no  *)
(* timestamp, whatever the workers do.                                     *)
(***************************************************************************)
C21_KeylessUntouched ==
    (stage = "seg" /\ only_with_keys) =>
        \A i \in Items :
            ~api_key[i] => /\ meta[i] = Null
                           /\ \A w \in Workers : i \notin Range(batch[w])

\* The chat of a user with the key has been processed and recorded done
\* while the chat of a user without it, of a smaller id, was passed over.
C21_Witness ==
    /\ stage = "seg" /\ only_with_keys
    /\ \E i, j \in Items :
           /\ i < j /\ ~api_key[i] /\ api_key[j]
           /\ meta[i] = Null /\ Status(j) = "done"
           /\ \E w \in Workers : results[w] = <<"ok">> /\ batch[w] = <<j>>

(***************************************************************************)
(* C22  A segmentation or embedding worker run alone with run_forever      *)
(* false and a processor that never fails stops only when a claim has      *)
(* returned nothing: when it has stopped, every item that was eligible     *)
(* when it started has status done, whatever the limit / chunk_size.       *)
(***************************************************************************)
Alone(w) == \A v \in Workers \ {w} : pc[v] = "idle" /\ batch[v] = <<>>

C22_StopsWhenEmpty ==
    \A w \in Workers :
        (stage \in {"seg", "emb"} /\ ~run_forever /\ pc[w] = "stopped" /\ Alone(w))
            => \A i \in Items : KeyFilter(i) => Status(i) = "done"

(***************************************************************************)
(* C23  The status of an item only changes along the state machine:        *)
(* pending -> processing by a claim (an item in error is claimed again the *)
(* same way), processing -> done, processing -> error, and processing ->   *)
(* pending by the reset of the recovery path.  A done item never changes.  *)
(***************************************************************************)
Transitions ==
    {<<"NULL", "processing">>, <<"error", "processing">>,
     <<"processing", "done">>, <<"processing", "error">>,
     <<"processing", "NULL">>}

C23_StateMachine ==
    [][\A i \in Items :
          StatusIn(meta', i) # Status(i)
              => <<Status(i), StatusIn(meta', i)>> \in Transitions]_vars

(***************************************************************************)
(* C24  The reset of the recovery path is applied only to items the worker *)
(* owns: every id the outer except clause resets is an item of the         *)
(* worker's current batch, whose claim was committed (a processor call of  *)
(* this pass has been made) and which is still in processing; never an     *)
(* item of an earlier batch or of a claim that was rolled back.            *)
(***************************************************************************)
C24_ResetOwned ==
    [][\A w \in Workers :
          (/\ pc[w] = "recover" /\ pc'[w] = "raised"
           /\ processing_ids[w] # None
           /\ ~reset_processing(meta, processing_ids[w]).raised)
              => \A i \in processing_ids[w] :
                     /\ i \in Range(batch[w])
                     /\ results[w] # <<>>
                     /\ Status(i) = "processing"]_vars

(***************************************************************************)
(* C25  A rate-limited attempt does not advance the exponential schedule:  *)
(* through the round of an attempt that raised TooManyRequestsError, from  *)
(* the except clause to the end of its sleep, current_delay keeps the      *)
(* value it had before the attempt.                                        *)
(***************************************************************************)
LastCall(r) == r.calls[Len(r.calls)]

C25_ScheduleKept ==
    [][/\ (/\ retry.pc = "call" /\ retry'.pc = "sleep"
           /\ LastCall(retry').type = TooManyRequests)
             => retry'.current_delay = retry.current_delay
       /\ (/\ retry.pc = "sleep" /\ retry'.pc = "call"
           /\ LastCall(retry).type = TooManyRequests)
             => retry'.current_delay = retry.current_delay]_vars

\* After a rate-limited first attempt and its sleep, an ordinary failure
\* is about to sleep for the initial delay.
C25_Witness ==
    /\ ~retry.jitter /\ retry.backoff_factor > 1
    /\ Len(retry.calls) = 2 /\ retry.pc = "sleep"
    /\ retry.calls[1].type = TooManyRequests
    /\ retry.calls[2].type = "ValueError"
    /\ retry.actual_delay = retry.delay

(***************************************************************************)
(* C26  Error fields exist only in the error state: in every reachable     *)
(* state an item carries an error message (error_message /                 *)
(* embeddings_error_message) only while its status is error, since         *)
(* set_is_processing clears what the previous attempt left.                *)
(***************************************************************************)
C26_ErrorOnlyInError ==
    \A i \in Items : Has(i, ErrorMessageKey) => Status(i) = "error"

(***************************************************************************)
(* C27  Marking done clears the error record: an item whose status is done *)
(* has a done timestamp and neither an error timestamp                     *)
(* (processing_error_at / embeddings_error_at) nor an error message, also  *)
(* when it failed before and was claimed again.                            *)
(***************************************************************************)
C27_DoneClearsError ==
    \A i \in Items :
        Status(i) = "done" =>
            /\ Has(i, DoneKey)
            /\ ~Has(i, ErrorAtKey)
            /\ ~Has(i, ErrorMessageKey)

(***************************************************************************)
(* C28  Frame of reset_processing: after a call on a set of ids, the       *)
(* status key is gone from exactly those items, every other key of those   *)
(* items is as it was, and the metadata of every other item is unchanged.  *)
(***************************************************************************)
C28_ResetFrame ==
    call.op = "reset_processing" =>
        \A i \in Items :
            IF i \in call.ids
            THEN /\ ~HasIn(meta, i, StatusKey)
                 /\ meta[i].null = call.before[i].null
                 /\ DOMAIN meta[i].obj = (DOMAIN call.before[i].obj) \ {StatusKey}
                 /\ \A k \in DOMAIN meta[i].obj : meta[i].obj[k] = call.before[i].obj[k]
            ELSE meta[i] = call.before[i]

(***************************************************************************)
(* C29  Frame of set_processing_error: called on ids that are claimed      *)
(* (status processing), it gives exactly those items status error, an      *)
(* error timestamp and the error message, keeps the started timestamp the  *)
(* claim wrote, and changes no other item.                                 *)
(***************************************************************************)
C29_ErrorFrame ==
    (/\ call.op = "set_processing_error"
     /\ \A i \in call.ids : StatusIn(call.before, i) = "processing")
        => \A i \in Items :
               IF i \in call.ids
               THEN /\ StatusIn(meta, i) = "error"
                    /\ HasIn(meta, i, ErrorAtKey)
                    /\ GetText(meta[i], ErrorMessageKey) = "message"
                    /\ GetText(meta[i], StartedKey) = GetText(call.before[i], StartedKey)
               ELSE meta[i] = call.before[i]

(***************************************************************************)
(* C30  Per-item independence in file ingestion: when processing of an     *)
(* upload of a claimed batch raises, the uploads of the same batch that    *)
(* were processed successfully before it remain recorded as processed.     *)
(***************************************************************************)
C30_UploadsKept ==
    \A w \in Workers :
        (/\ stage = "upl" /\ pc[w] = "raised"
         /\ results[w] # <<>>
         /\ results[w][Len(results[w])] = "raised")
            => \A k \in 1..(Len(results[w]) - 1) :
                   results[w][k] = "ok" => batch[w][k] \in processed_at

(***************************************************************************)
(* C31  Errored embedding items stay eligible: every group whose           *)
(* embeddings_status is error satisfies the claim predicate of             *)
(* _get_groups_not_embedded (status not processing, no embedding row),     *)
(* also when the failed batch call had saved embedding rows before it      *)
(* raised.                                                                 *)
(***************************************************************************)
C31_ErrorEligible ==
    \A i \in Items :
        (stage = "emb" /\ Status(i) = "error") => (GroupsWhere(i) /\ NoEmbedding(i))

(***************************************************************************)
(* C32  Hand-off from ingestion to segmentation: when an upload            *)
(* transaction commits, the chat of every upload it processed is eligible  *)
(* for a segmentation claim, also when the chat existed already with       *)
(* status done or processing.                                              *)
(***************************************************************************)
C32_HandOff ==
    [][\A u \in processed_at' \ processed_at :
          LET c == internal_code[u] IN
              StatusIn(meta', c) = "NULL" \/ StatusIn(meta', c) \notin {"processing", "done"}]_vars

(***************************************************************************)
(* C33  Stage independence in the combined listener: an embedding worker   *)
(* that stalls or ends with an exception does not stop or cancel the       *)
(* segmentation workers: a segmentation worker is cancelled only when a    *)
(* segmentation worker has raised.                                         *)
(***************************************************************************)
C33_StagesIndependent ==
    \A w \in Workers :
        pc[w] = "cancelled" => \E v \in Workers : pc[v] = "raised"

C35_SizeAndOrder ==
    [][\A w \in Workers :
          (Returns(w) /\ pc'[w] \notin {"recover", "raised"}) =>
              LET b == batch'[w] IN
              /\ Len(b) <= limit
              /\ \A i \in Range(b) : Matches(i) /\ lock[i] = 0
              /\ \A i \in Range(b) : \A j \in 1..(i - 1) :
                     (Matches(j) /\ lock[j] = 0) => j \in Range(b)
              /\ \A a, c \in 1..Len(b) : a < c => b[a] < b[c]]_vars

(***************************************************************************)
(* C36  Every worker gets a store connection: with the default number of   *)
(* workers and the default pool, every task of _listen_chat_groups         *)
(* eventually leaves pool.acquire() with a connection and begins polling.  *)
(***************************************************************************)
C36_AllAcquire == \A w \in 1..NumTasks : <>(pc[w] # "acquire")

====
